---- MODULE Spec2Model ----
(***************************************************************************)
(* A model of ogp.py: the Telegram bot that keeps, per user, a list of     *)
(* tokens (user_tokens) and at most one registered monitoring task         *)
(* (monitoring_tasks), and whose monitoring task (monitor_tokens) polls    *)
(* the ping and position endpoints of every token with bounded retries,    *)
(* reports changed statuses and sleeps.                                    *)
(*                                                                         *)
(* Granularity.  The bot runs on one asyncio event loop.  A coroutine runs *)
(* without interruption from one await to the next, so every action below  *)
(* is the code between two suspension points.  The update handlers are     *)
(* processed one after the other (Application.builder() leaves             *)
(* concurrent_updates off and the handlers block), and each of them does   *)
(* all its reads and writes of the two dictionaries before its first       *)
(* await on a network call, so a handler is one action.  A monitoring task *)
(* is suspended at an HTTP attempt, a retry delay, a send_message or the   *)
(* inter-cycle sleep, and handlers and other tasks run in between.         *)
(*                                                                         *)
(* Task.cancel() only requests cancellation: the task is not done until    *)
(* the event loop has run it again and CancelledError has been raised at   *)
(* the await it is suspended in.  CancelledError derives from              *)
(* BaseException (Python 3.8 and later), which is what "except Exception"  *)
(* at lines 199 and 212 is matched against.  Raised in asyncio.sleep it    *)
(* reaches the except clause of monitor_tokens in the same step; raised in *)
(* a network call it first leaves the "async with" blocks of the HTTP      *)
(* client, whose exits close the connection and may themselves wait        *)
(* (state "closing"), and the task is done only after that.                *)
(*                                                                         *)
(* create_task and Task.cancel() put the task's next step on the loop's    *)
(* ready queue, and the handler that called them then awaits a network     *)
(* call (edit_message_text), so that step runs before the next update is   *)
(* handled: a handler never finds a task that has not run yet or whose     *)
(* CancelledError has not been raised yet (HandlersTurn).                  *)
(*                                                                         *)
(* bot.send_message hands the text to the Telegram client at the call; the *)
(* model counts a message as sent there, and the task is then suspended    *)
(* until the call returns.  The Telegram side is taken to accept every     *)
(* message (send_message and edit_message_text do not raise).              *)
(***************************************************************************)
EXTENDS Integers, Sequences, FiniteSets, TLC

VARIABLES
    user_tokens,        \* dict user_id -> list of tokens            (line 29)
    monitoring_tasks,   \* dict user_id -> task                      (line 30)
    conversation,       \* ConversationHandler state of each user    (lines 316-322)
    tasks,              \* every asyncio task created by start_monitoring, in creation order
    reply,              \* the text the last handler answered with
    call                \* one call of ping_server or get_position, followed on its own

vars == <<user_tokens, monitoring_tasks, conversation, tasks, reply, call>>

(***************************************************************************)
(* Program constants                                                       *)
(***************************************************************************)
MAX_RETRIES == 3
SUFFIX_LEN == 6
REMOVE_PREFIX == "remove_"
INFO_PREFIX == "info_"
AWAITING_TOKENS == "AWAITING_TOKENS"
END == "END"

(***************************************************************************)
(* Bounds of the model                                                     *)
(***************************************************************************)
MaxTokens == 3      \* tokens stored, all lists together
MaxTasks == 2       \* tasks created in one run
MaxCycles == 2      \* poll cycles one task begins
MaxLines == 2       \* lines of one submitted message

Owners == {"u1", "u2"}

\* Tokens are strings: sequences of characters.
TokS == <<"s", "1">>
TokL == <<"l", "o", "n", "g", "t", "k", "2">>
TokenPool == {TokS, TokL}

(***************************************************************************)
(* Python values                                                           *)
(***************************************************************************)
PyNone == [type |-> "NoneType", val |-> 0]
PyStr(s) == [type |-> "str", val |-> s]
PyInt(n) == [type |-> "int", val |-> n]

\* bool(v) for the values that occur: None, 0 and "" are false.
Truthy(v) == v # PyNone /\ v # PyInt(0) /\ v # PyStr("")

\* A JSON object is a set of <<key, value>> pairs with distinct keys.
DictGet(d, k, default) ==
    IF \E p \in d : p[1] = k THEN (CHOOSE p \in d : p[1] = k)[2] ELSE default

\* str.capitalize() on the status strings of the model.
Capitalize(s) ==
    CASE s = "up" -> "Up"
      [] s = "down" -> "Down"
      [] s = "unknown" -> "Unknown"
      [] OTHER -> s

\* token[-6:]
Suffix(token) ==
    IF Len(token) > SUFFIX_LEN
    THEN SubSeq(token, Len(token) - SUFFIX_LEN + 1, Len(token))
    ELSE token

\* f"...{token[-6:]}"
Ellipsis(token) == <<".", ".", ".">> \o Suffix(token)

\* f"...{token[-6:]}" if len(token) > 6 else token
ShortToken(token) == IF Len(token) > SUFFIX_LEN THEN Ellipsis(token) ELSE token

\* str.strip() on a line: leading and trailing blanks go.
RECURSIVE LStrip(_)
LStrip(s) == IF s # <<>> /\ Head(s) = " " THEN LStrip(Tail(s)) ELSE s

RECURSIVE RStrip(_)
RStrip(s) ==
    IF s # <<>> /\ s[Len(s)] = " " THEN RStrip(SubSeq(s, 1, Len(s) - 1)) ELSE s

Strip(s) == RStrip(LStrip(s))

\* A parser that keeps one copy of a token the message repeats.
RECURSIVE ParseTokensUnique(_)
ParseTokensUnique(lines) ==
    IF lines = <<>> THEN <<>>
    ELSE LET rest == ParseTokensUnique(Tail(lines))
             t == Strip(Head(lines)) IN
         IF t = <<>> \/ \E i \in 1..Len(rest) : rest[i] = t
         THEN rest ELSE <<t>> \o rest

\* [t.strip() for t in text.split('\n') if t.strip()], text given as its lines
RECURSIVE ParseTokens(_)
ParseTokens(lines) ==
    IF lines = <<>> THEN <<>>
    ELSE IF Strip(Head(lines)) # <<>>
         THEN <<Strip(Head(lines))>> \o ParseTokens(Tail(lines))
         ELSE ParseTokens(Tail(lines))

\* int(s) for an optionally signed decimal numeral
DigitValue(c) ==
    CASE c = "0" -> 0 [] c = "1" -> 1 [] c = "2" -> 2 [] c = "3" -> 3 [] c = "4" -> 4
      [] c = "5" -> 5 [] c = "6" -> 6 [] c = "7" -> 7 [] c = "8" -> 8 [] c = "9" -> 9

RECURSIVE ParseNat(_, _)
ParseNat(s, acc) ==
    IF s = <<>> THEN acc ELSE ParseNat(Tail(s), 10 * acc + DigitValue(Head(s)))

ParseInt(s) == IF Head(s) = "-" THEN 0 - ParseNat(Tail(s), 0) ELSE ParseNat(s, 0)

\* str(i) for the indices a menu or a stale button can carry
IndexText(i) ==
    CASE i = -1 -> <<"-", "1">>
      [] i = 0 -> <<"0">> [] i = 1 -> <<"1">> [] i = 2 -> <<"2">> [] i = 3 -> <<"3">>
      [] i = 4 -> <<"4">> [] i = 5 -> <<"5">>

(***************************************************************************)
(* Dictionaries                                                            *)
(***************************************************************************)
\* user_tokens.get(user_id, [])
TokensOf(ut, u) == IF u \in DOMAIN ut THEN ut[u] ELSE <<>>

\* if user_id not in user_tokens: user_tokens[user_id] = []
EnsureUser(ut, u) == IF u \in DOMAIN ut THEN ut ELSE ut @@ (u :> <<>>)

\* A del that empties the dict.
DictClear(d, k) == <<>>

\* del d[k]
DictDel(d, k) == [x \in (DOMAIN d) \ {k} |-> d[x]]

\* d[k] = v
DictSet(d, k, v) == [x \in (DOMAIN d) \cup {k} |-> IF x = k THEN v ELSE d[x]]

\* The number of tokens stored, all lists together.
RECURSIVE TotalTokens(_, _)
TotalTokens(ut, users) ==
    IF users = {} THEN 0
    ELSE LET u == CHOOSE x \in users : TRUE IN
         Len(ut[u]) + TotalTokens(ut, users \ {u})

\* A list index as Python reads it: a negative one counts from the end.
PyIndex(list, index) == IF index < 0 THEN index + Len(list) ELSE index

\* list.pop(index) raises IndexError for an index outside [-len, len).
PopRaises(list, index) == index < 0 - Len(list) \/ index >= Len(list)

\* The element list.pop(index) returns, and the list it leaves.
Popped(list, index) == list[PyIndex(list, index) + 1]

ListPop(list, index) ==
    SubSeq(list, 1, PyIndex(list, index))
        \o SubSeq(list, PyIndex(list, index) + 2, Len(list))

(***************************************************************************)
(* The remote service                                                      *)
(***************************************************************************)
\* What one HTTP attempt can end in: an exception raised by aiohttp (a transport
\* error, the ClientTimeout of REQUEST_TIMEOUT running out), a response whose
\* status is not 200, a 200 response whose body response.json() cannot decode
\* (it raises), or a 200 response carrying a JSON object.
Failures ==
    { [kind |-> "ClientError", json |-> {}],
      [kind |-> "TimeoutError", json |-> {}],
      [kind |-> "non200", json |-> {}],
      [kind |-> "undecodable", json |-> {}] }

OkResponse(d) == [kind |-> "ok", json |-> d]

\* JSON objects the ping endpoint answers with: a status, no field at all, or
\* fields other than "status".
PingObjects ==
    { {<<"status", PyStr("up")>>}, {<<"status", PyStr("down")>>},
      {}, {<<"detail", PyStr("x")>>} }

\* JSON objects the position endpoint answers with.
PositionObjects == { {<<"behind", PyInt(5)>>}, {} }

PingOutcomes == Failures \cup {OkResponse(d) : d \in PingObjects}
PositionOutcomes == Failures \cup {OkResponse(d) : d \in PositionObjects}

\* An attempt that leaves the try block by an exception.
Raises(o) == o.kind \in {"ClientError", "TimeoutError", "undecodable"}

\* The exception a cancelled task finds raised at its await.
CancelledError == [kind |-> "CancelledError", json |-> {}]

\* A handler that catches CancelledError with the rest ("except BaseException",
\* or "except Exception" before Python 3.8).
CatchesCancelledError(e) == TRUE

\* "except Exception" (lines 199, 212, 262): every exception of the model but
\* CancelledError, which derives from BaseException.
IsException(e) == e.kind # "CancelledError"

\* The value of a remote call: None, or the decoded JSON object.
ReturnNone == [none |-> TRUE, json |-> {}]
ReturnJson(d) == [none |-> FALSE, json |-> d]

\* A test for None in place of the truth test: "if current_ping is not None".
ResultNotNone(r) == ~r.none

\* "x if result else y": None and the empty dict are false.
ResultTruthy(r) == ~r.none /\ r.json # {}

\* A loop that runs one iteration too many: range(MAX_RETRIES + 1).
HasNextAttemptOffByOne(attempt) == attempt + 1 < MAX_RETRIES + 1

\* range(MAX_RETRIES): is there an iteration after this one?
HasNextAttempt(attempt) == attempt + 1 < MAX_RETRIES

\* get_position, from the end of one attempt to its next suspension point or
\* its return.  next: "return" (with result), "attempt" (the next GET is
\* awaited), "delay" (asyncio.sleep(RETRY_DELAY) is awaited).
get_position(attempt, o) ==
    IF o.kind = "ok" THEN [next |-> "return", result |-> ReturnJson(o.json)]
    ELSE IF o.kind = "non200"
    THEN IF HasNextAttempt(attempt)
         THEN [next |-> "attempt", result |-> ReturnNone]
         ELSE [next |-> "return", result |-> ReturnNone]
    ELSE IF IsException(o)
    THEN IF attempt < MAX_RETRIES - 1
         THEN [next |-> "delay", result |-> ReturnNone]
         ELSE [next |-> "return", result |-> ReturnNone]
    ELSE [next |-> "raise", result |-> ReturnNone]

\* ping_server: the same loop against PING_URL.
ping_server(attempt, o) ==
    IF o.kind = "ok" THEN [next |-> "return", result |-> ReturnJson(o.json)]
    ELSE IF o.kind = "non200"
    THEN IF HasNextAttempt(attempt)
         THEN [next |-> "attempt", result |-> ReturnNone]
         ELSE [next |-> "return", result |-> ReturnNone]
    ELSE IF IsException(o)
    THEN IF attempt < MAX_RETRIES - 1
         THEN [next |-> "delay", result |-> ReturnNone]
         ELSE [next |-> "return", result |-> ReturnNone]
    ELSE [next |-> "raise", result |-> ReturnNone]

(***************************************************************************)
(* Status tuples and their formatting                                      *)
(***************************************************************************)
\* The dict built at lines 246-249.
StatusOf(current_ping, current_pos) ==
    [ping |-> IF ResultTruthy(current_ping)
              THEN DictGet(current_ping.json, "status", PyNone)
              ELSE PyStr("down"),
     position |-> IF ResultTruthy(current_pos)
                  THEN DictGet(current_pos.json, "behind", PyNone)
                  ELSE PyNone]

\* prev_status.get(token) != status
StatusChanged(prev_status, token, status) ==
    token \notin DOMAIN prev_status \/ prev_status[token] # status

\* format_status raises (AttributeError) when status['ping'] has no capitalize().
FormatRaises(status) == status.ping.type # "str"

\* The text format_status returns, as its three parts.
format_status(token, status) ==
    [token |-> ShortToken(token),
     status |-> Capitalize(status.ping.val),
     position |-> IF Truthy(status.position) THEN status.position
                  ELSE PyStr("Unknown")]

(***************************************************************************)
(* Tasks                                                                   *)
(***************************************************************************)
\* pc: where the coroutine is suspended.
\*   created     scheduled by create_task, not yet run
\*   ping, pos   in an HTTP attempt of ping_server / get_position
\*   ping_delay, pos_delay   in asyncio.sleep(RETRY_DELAY)
\*   send        in bot.send_message of a status update       (line 256)
\*   sleep       in asyncio.sleep(MONITOR_INTERVAL)           (line 258)
\*   crash_send  in bot.send_message of the crash message     (line 264)
\*   closing     CancelledError is leaving a network call
\*   Cancelled, Failed   done: ended by cancellation, ended after a fault
\* Locals are kept only while they can still be read: current_ping from the
\* return of ping_server to line 247, the token from the iterator to line 253.
\* History kept for the properties: stopped (stop_monitoring cancelled it),
\* n_crash (crash messages sent), obs (the last status observed per token),
\* last_seen (the token observed last, and whether its ping call and its
\* position call returned a payload), snapshot (the owner's list as it was
\* when the cycle in progress began), polled (the tokens the cycle in progress
\* has taken from the iterator), first_list (the owner's list as it was when
\* the first cycle began).
NoToken == <<>>
EmptyDict == <<>>
NotSeen == [token |-> NoToken, ping |-> FALSE, position |-> FALSE]

\* A task that starts from the snapshots an earlier task of the owner left
\* behind (prev_status kept in a module-level dict).
NewTaskWithOldSnapshots(u) ==
    [owner |-> u, pc |-> "created", must_cancel |-> FALSE,
     prev_status |->
        IF \E t \in DOMAIN tasks : tasks[t].owner = u
        THEN [tok \in {user_tokens[u][i] : i \in 1..Len(user_tokens[u])} |->
                 [ping |-> PyStr("up"), position |-> PyInt(5)]]
        ELSE <<>>,
     updates |-> <<>>, it |-> 0, token |-> <<>>,
     attempt |-> 0, current_ping |-> [none |-> TRUE, json |-> {}],
     cycles |-> 0, stopped |-> FALSE, n_crash |-> 0, obs |-> <<>>,
     last_seen |-> [token |-> <<>>, ping |-> FALSE, position |-> FALSE],
     snapshot |-> <<>>, polled |-> <<>>, first_list |-> <<>>]

NewTask(u) ==
    [owner |-> u, pc |-> "created", must_cancel |-> FALSE,
     prev_status |-> EmptyDict, updates |-> <<>>, it |-> 0, token |-> NoToken,
     attempt |-> 0, current_ping |-> ReturnNone,
     cycles |-> 0, stopped |-> FALSE, n_crash |-> 0, obs |-> EmptyDict,
     last_seen |-> NotSeen, snapshot |-> <<>>, polled |-> <<>>,
     first_list |-> <<>>]

\* A coroutine that has finished, or that an exception is leaving, has no
\* use for its frame any more.
Ended(tk, how) ==
    [tk EXCEPT !.pc = how, !.must_cancel = FALSE, !.cycles = 0,
               !.prev_status = EmptyDict, !.updates = <<>>, !.it = 0,
               !.token = NoToken, !.attempt = 0, !.current_ping = ReturnNone,
               !.obs = EmptyDict, !.last_seen = NotSeen, !.snapshot = <<>>,
               !.polled = <<>>, !.first_list = <<>>]

\* Task.done()
TaskDone(tk) == tk.pc \in {"Cancelled", "Failed"}

TaskIds == 1..Len(tasks)

(***************************************************************************)
(* monitor_tokens                                                          *)
(***************************************************************************)
\* The for statement asks its list iterator for the next token.  The iterator
\* indexes the live list user_tokens[user_id]: it yields element number `it`
\* (counted from 0) if the list still has one.  With the list exhausted the
\* cycle ends: the updates, if any, are sent, and the task sleeps.
NextToken(tk, ut) ==
    LET list == TokensOf(ut, tk.owner) IN
    IF tk.it < Len(list)
    THEN [tk EXCEPT !.token = list[tk.it + 1], !.it = tk.it + 1,
                    !.pc = "ping", !.attempt = 0,
                    !.polled = Append(@, list[tk.it + 1])]
    ELSE [tk EXCEPT !.pc = IF tk.updates # <<>> THEN "send" ELSE "sleep",
                    !.it = 0, !.token = NoToken,
                    !.snapshot = <<>>, !.polled = <<>>]

\* One turn of "while True": updates = [] and a new iterator (lines 241-242).
BeginCycle(tk, ut) ==
    NextToken([tk EXCEPT !.updates = <<>>, !.it = 0, !.cycles = @ + 1,
                         !.snapshot = TokensOf(ut, tk.owner),
                         !.polled = <<>>,
                         !.first_list = IF tk.cycles = 0
                                        THEN TokensOf(ut, tk.owner) ELSE @], ut)

\* except Exception (lines 262-264): the crash message is sent.
Fault(tk) ==
    [tk EXCEPT !.pc = "crash_send", !.it = 0, !.token = NoToken,
               !.n_crash = @ + 1, !.snapshot = <<>>, !.polled = <<>>]

\* The awaits that are network calls.
NetworkAwaits == {"ping", "pos", "send", "crash_send"}

\* CancelledError raised at the await the task is suspended in, and not caught
\* on its way to monitor_tokens: except asyncio.CancelledError (lines 260-261)
\* ends the coroutine, at once or after the HTTP client has closed.
Cancelled(tk) ==
    IF tk.pc \in NetworkAwaits THEN Ended(tk, "closing") ELSE Ended(tk, "Cancelled")

\* Lines 246-253 for the token in hand, once get_position has returned, and
\* then the rest of the for loop up to the next await.
Observe(tk, current_pos, ut) ==
    LET status == StatusOf(tk.current_ping, current_pos)
        seen == [tk EXCEPT !.current_ping = ReturnNone,
                           !.obs = DictSet(@, tk.token, status),
                           !.last_seen = [token |-> tk.token,
                                          ping |-> ~tk.current_ping.none,
                                          position |-> ~current_pos.none]]
    IN  IF StatusChanged(tk.prev_status, tk.token, status)
        THEN IF FormatRaises(status)
             THEN Fault(seen)
             ELSE NextToken(
                    [seen EXCEPT !.updates = Append(@, format_status(tk.token, status)),
                                 !.prev_status = DictSet(@, tk.token, status)], ut)
        ELSE NextToken(seen, ut)

\* What a task finds at the await it is resumed from: the outcome of the
\* call, or CancelledError if its cancellation has been requested.
Resumes(tk, outcomes) == IF tk.must_cancel THEN {CancelledError} ELSE outcomes

SetTask(t, tk) ==
    /\ tasks' = [tasks EXCEPT ![t] = tk]
    /\ UNCHANGED <<user_tokens, monitoring_tasks, conversation, reply, call>>

\* The event loop runs a new task for the first time.
TaskStart(t) ==
    /\ tasks[t].pc = "created"
    /\ SetTask(t, IF tasks[t].must_cancel THEN Cancelled(tasks[t])
                  ELSE BeginCycle(tasks[t], user_tokens))

\* An attempt of ping_server ends (lines 206-215, 243).
PingAttempt(t, o) ==
    LET tk == [tasks[t] EXCEPT !.must_cancel = FALSE]
        r == ping_server(tk.attempt, o) IN
    /\ tasks[t].pc = "ping"
    /\ o \in Resumes(tasks[t], PingOutcomes)
    /\ SetTask(t,
         CASE r.next = "return" ->
                [tk EXCEPT !.current_ping = r.result, !.pc = "pos", !.attempt = 0]
           [] r.next = "attempt" -> [tk EXCEPT !.attempt = @ + 1]
           [] r.next = "delay" -> [tk EXCEPT !.pc = "ping_delay"]
           [] r.next = "raise" -> Cancelled(tk))

\* asyncio.sleep(RETRY_DELAY) in ping_server ends (line 214).
PingDelay(t) ==
    /\ tasks[t].pc = "ping_delay"
    /\ SetTask(t, IF tasks[t].must_cancel THEN Cancelled(tasks[t])
                  ELSE [tasks[t] EXCEPT !.pc = "ping", !.attempt = @ + 1])

\* An attempt of get_position ends (lines 193-202, 244-253).
PosAttempt(t, o) ==
    LET tk == [tasks[t] EXCEPT !.must_cancel = FALSE]
        r == get_position(tk.attempt, o) IN
    /\ tasks[t].pc = "pos"
    /\ o \in Resumes(tasks[t], PositionOutcomes)
    /\ SetTask(t,
         CASE r.next = "return" -> Observe(tk, r.result, user_tokens)
           [] r.next = "attempt" -> [tk EXCEPT !.attempt = @ + 1]
           [] r.next = "delay" -> [tk EXCEPT !.pc = "pos_delay"]
           [] r.next = "raise" -> Cancelled(tk))

\* asyncio.sleep(RETRY_DELAY) in get_position ends (line 201).
PosDelay(t) ==
    /\ tasks[t].pc = "pos_delay"
    /\ SetTask(t, IF tasks[t].must_cancel THEN Cancelled(tasks[t])
                  ELSE [tasks[t] EXCEPT !.pc = "pos", !.attempt = @ + 1])

\* bot.send_message of the status update returns (line 256).
SendDone(t) ==
    /\ tasks[t].pc = "send"
    /\ SetTask(t, IF tasks[t].must_cancel THEN Cancelled(tasks[t])
                  ELSE [tasks[t] EXCEPT !.pc = "sleep"])

\* asyncio.sleep(MONITOR_INTERVAL) ends (line 258) and the next cycle begins.
SleepDone(t) ==
    /\ tasks[t].pc = "sleep"
    /\ tasks[t].must_cancel \/ tasks[t].cycles < MaxCycles
    /\ SetTask(t, IF tasks[t].must_cancel THEN Cancelled(tasks[t])
                  ELSE BeginCycle(tasks[t], user_tokens))

\* bot.send_message of the crash message returns (line 264): the coroutine
\* returns.  Cancelled there, CancelledError leaves the coroutine.
CrashSendDone(t) ==
    /\ tasks[t].pc = "crash_send"
    /\ SetTask(t, IF tasks[t].must_cancel THEN Cancelled(tasks[t])
                  ELSE Ended(tasks[t], "Failed"))

\* The HTTP client has closed and CancelledError has reached line 260.
Closed(t) ==
    /\ tasks[t].pc = "closing"
    /\ SetTask(t, Ended(tasks[t], "Cancelled"))

(***************************************************************************)
(* The update handlers                                                     *)
(***************************************************************************)
Reply(text) == [text |-> text, token |-> <<>>, count |-> 0, total |-> 0]

\* The updates are handled one at a time, and the steps a handler has put on
\* the ready queue run before the next update is handled.
HandlersTurn == \A t \in TaskIds : tasks[t].pc # "created" /\ ~tasks[t].must_cancel

\* callback_data of the buttons: a fixed word, or a prefix and an index.
Data(cmd) == [cmd |-> cmd, arg |-> <<>>]
IndexData(prefix, i) == [cmd |-> prefix, arg |-> IndexText(i)]

MenuWords ==
    {"tokens", "add_tokens", "remove_tokens", "token_info", "back_to_main",
     "position", "start_monitoring", "stop_monitoring", "about"}

\* Indices a button can carry: those of a menu drawn when the list was at its
\* longest, and a negative one.
ButtonIndices == (-1)..MaxTokens

CallbackData ==
    {Data(w) : w \in MenuWords}
    \cup {IndexData(p, i) : p \in {REMOVE_PREFIX, INFO_PREFIX}, i \in ButtonIndices}

\* The lines a submitted message is made of.
LinePool == {<<" ">>, <<" ">> \o TokS \o <<" ">>, TokL}

Texts == UNION {[1..n -> LinePool] : n \in 1..MaxLines}

\* start_monitoring without its check: every call spawns.
NeverRunning(mt, u) == FALSE

\* start_monitoring without the done() test: a registered task counts as
\* running whatever became of it.
RegisteredIsRunning(mt, u) == u \in DOMAIN mt

\* line 219
AlreadyRunning(mt, u) == u \in DOMAIN mt /\ ~TaskDone(tasks[mt[u]])

\* start_monitoring (lines 217-224)
start_monitoring(u) ==
    IF AlreadyRunning(monitoring_tasks, u)
    THEN /\ reply' = Reply("Monitoring already running")
         /\ UNCHANGED <<monitoring_tasks, tasks>>
    ELSE /\ Len(tasks) < MaxTasks
         /\ tasks' = Append(tasks, NewTask(u))
         /\ monitoring_tasks' = DictSet(monitoring_tasks, u, Len(tasks) + 1)
         /\ reply' = Reply("Started monitoring")

\* A stop that never calls cancel(): the task is not told.
CancelNotRequested(tk) == IF TaskDone(tk) THEN tk ELSE [tk EXCEPT !.stopped = TRUE]

\* Task.cancel(): no effect on a task that is done
TaskCancel(tk) ==
    IF TaskDone(tk) THEN tk ELSE [tk EXCEPT !.must_cancel = TRUE, !.stopped = TRUE]

\* stop_monitoring (lines 226-233)
stop_monitoring(u) ==
    IF u \in DOMAIN monitoring_tasks
    THEN /\ tasks' = [tasks EXCEPT ![monitoring_tasks[u]] = TaskCancel(@)]
         /\ monitoring_tasks' = DictDel(monitoring_tasks, u)
         /\ reply' = Reply("Stopped monitoring")
    ELSE /\ reply' = Reply("No active monitoring")
         /\ UNCHANGED <<monitoring_tasks, tasks>>

\* The range test without its lower bound: index < len(tokens).
ValidIndexNoLowerBound(index, tokens) == index < Len(tokens)

\* 0 <= index < len(tokens) (lines 133, 141)
ValidIndex(index, tokens) == 0 <= index /\ index < Len(tokens)

\* handle_token_actions (lines 126-144), on the list made sure of at line 62
handle_token_actions(u, data, ut) ==
    LET tokens == TokensOf(ut, u)
        index == ParseInt(data.arg) IN
    IF ValidIndex(index, tokens) /\ PopRaises(tokens, index)
    THEN \* tokens.pop(index) or tokens[index] raises: the handler answers nothing
         /\ user_tokens' = ut
         /\ reply' = Reply("IndexError")
    ELSE IF data.cmd = REMOVE_PREFIX
    THEN IF ValidIndex(index, tokens)
         THEN /\ user_tokens' = DictSet(ut, u, ListPop(tokens, index))
              /\ reply' = [Reply("Removed token") EXCEPT
                              !.token = Ellipsis(Popped(tokens, index))]
         ELSE /\ user_tokens' = ut
              /\ reply' = Reply("Invalid token selection")
    ELSE IF ValidIndex(index, tokens)
         THEN /\ user_tokens' = ut
              /\ reply' = [Reply("Token info") EXCEPT
                              !.token = Ellipsis(Popped(tokens, index))]
         ELSE /\ user_tokens' = ut
              /\ reply' = Reply("Invalid token selection")

\* The menus that only answer: show_token_menu, show_remove_menu,
\* show_info_menu, return_to_main, fetch_positions, show_about, and the prompt
\* of add_tokens (lines 64-76, 81-82, 88-124, 177-189, 275-286).
MenuReply(word, tokens) ==
    CASE word = "tokens" -> Reply("Token Management")
      [] word = "add_tokens" -> Reply("Send tokens")
      [] word = "remove_tokens" ->
            IF tokens = <<>> THEN Reply("No tokens to remove")
            ELSE [Reply("Select token to remove") EXCEPT !.count = Len(tokens)]
      [] word = "token_info" ->
            IF tokens = <<>> THEN Reply("No tokens to view")
            ELSE [Reply("Select token to view") EXCEPT !.count = Len(tokens)]
      [] word = "back_to_main" -> Reply("Choose an option")
      [] word = "position" ->
            IF tokens = <<>> THEN Reply("No tokens registered")
            ELSE [Reply("Current Positions") EXCEPT !.count = Len(tokens)]
      [] word = "about" -> Reply("About")

\* handle_button_click (lines 55-86).  The ConversationHandler comes first in
\* main(): outside a conversation the add_tokens button is its entry point and
\* the value returned, AWAITING_TOKENS, becomes the user's state; any other
\* callback is handled by the second CallbackQueryHandler, whose return value
\* is dropped.
handle_button_click(u, data) ==
    LET ut == EnsureUser(user_tokens, u) IN
    /\ HandlersTurn
    /\ UNCHANGED call
    /\ conversation' =
          IF data.cmd = "add_tokens" /\ conversation[u] = END
          THEN [conversation EXCEPT ![u] = AWAITING_TOKENS]
          ELSE conversation
    /\ CASE data.cmd = "start_monitoring" ->
              user_tokens' = ut /\ start_monitoring(u)
         [] data.cmd = "stop_monitoring" ->
              user_tokens' = ut /\ stop_monitoring(u)
         [] data.cmd \in {REMOVE_PREFIX, INFO_PREFIX} ->
              handle_token_actions(u, data, ut) /\ UNCHANGED <<monitoring_tasks, tasks>>
         [] OTHER ->
              /\ user_tokens' = ut
              /\ reply' = MenuReply(data.cmd, TokensOf(ut, u))
              /\ UNCHANGED <<monitoring_tasks, tasks>>

\* process_tokens (lines 161-175), reached only in state AWAITING_TOKENS
process_tokens(u, lines) ==
    LET tokens == ParseTokens(lines)
        old == TokensOf(user_tokens, u) IN
    /\ HandlersTurn
    /\ conversation[u] = AWAITING_TOKENS
    /\ conversation' = [conversation EXCEPT ![u] = END]
    /\ IF tokens = <<>>
       THEN /\ reply' = Reply("No valid tokens found")
            /\ UNCHANGED user_tokens
       ELSE /\ TotalTokens(user_tokens, DOMAIN user_tokens) + Len(tokens) <= MaxTokens
            /\ user_tokens' = DictSet(user_tokens, u, old \o tokens)
            /\ reply' = [Reply("Added tokens") EXCEPT
                            !.count = Len(tokens), !.total = Len(old \o tokens)]
    /\ UNCHANGED <<monitoring_tasks, tasks, call>>

\* cancel (lines 288-291), the fallback of the conversation
cancel(u) ==
    /\ HandlersTurn
    /\ conversation[u] = AWAITING_TOKENS
    /\ conversation' = [conversation EXCEPT ![u] = END]
    /\ reply' = Reply("Operation cancelled")
    /\ UNCHANGED <<user_tokens, monitoring_tasks, tasks, call>>

\* start (lines 36-53), the /start command
start(u) ==
    /\ HandlersTurn
    /\ reply' = Reply("Choose an option")
    /\ UNCHANGED <<user_tokens, monitoring_tasks, conversation, tasks, call>>

(***************************************************************************)
(* One remote call on its own                                              *)
(***************************************************************************)
\* ping_server and get_position read and write nothing but their own loop
\* variable, so one call is followed here from its first attempt to its
\* return, whatever the attempts end in.  trace lists what happened: the
\* outcome of each attempt, and "sleep" for each asyncio.sleep(RETRY_DELAY).
NoCall == [fn |-> "", pc |-> "idle", attempt |-> 0, trace |-> <<>>, result |-> ReturnNone]

NewCall(fn) == [NoCall EXCEPT !.fn = fn, !.pc = "attempt"]

OutcomesOf(fn) == IF fn = "ping_server" THEN PingOutcomes ELSE PositionOutcomes

\* An attempt of the call ends.
CallAttempt(o) ==
    LET r == IF call.fn = "ping_server" THEN ping_server(call.attempt, o)
             ELSE get_position(call.attempt, o) IN
    /\ call.pc = "attempt"
    /\ o \in OutcomesOf(call.fn)
    /\ call' =
         CASE r.next = "return" ->
                [call EXCEPT !.pc = "returned", !.result = r.result,
                             !.trace = Append(@, o)]
           [] r.next = "attempt" ->
                [call EXCEPT !.attempt = @ + 1, !.trace = Append(@, o)]
           [] r.next = "delay" ->
                [call EXCEPT !.pc = "delay", !.trace = Append(@, o)]
    /\ UNCHANGED <<user_tokens, monitoring_tasks, conversation, tasks, reply>>

\* asyncio.sleep(RETRY_DELAY) ends and the loop goes on.
CallDelay ==
    /\ call.pc = "delay"
    /\ call' = [call EXCEPT !.pc = "attempt", !.attempt = @ + 1,
                            !.trace = Append(@, [kind |-> "sleep", json |-> {}])]
    /\ UNCHANGED <<user_tokens, monitoring_tasks, conversation, tasks, reply>>

(***************************************************************************)
(* The specifications                                                      *)
(***************************************************************************)
MonitorData == {Data("start_monitoring"), Data("stop_monitoring")}

\* The handlers of the token store and of the menus.
StoreNext ==
    \/ \E u \in Owners, data \in CallbackData \ MonitorData : handle_button_click(u, data)
    \/ \E u \in Owners, lines \in Texts : process_tokens(u, lines)
    \/ \E u \in Owners : cancel(u)
    \/ \E u \in Owners : start(u)

\* The steps of the monitoring tasks.
TaskNext ==
    \/ \E t \in TaskIds : TaskStart(t)
    \/ \E t \in TaskIds, o \in PingOutcomes \cup {CancelledError} : PingAttempt(t, o)
    \/ \E t \in TaskIds : PingDelay(t)
    \/ \E t \in TaskIds, o \in PositionOutcomes \cup {CancelledError} : PosAttempt(t, o)
    \/ \E t \in TaskIds : PosDelay(t)
    \/ \E t \in TaskIds : SendDone(t)
    \/ \E t \in TaskIds : SleepDone(t)
    \/ \E t \in TaskIds : CrashSendDone(t)
    \/ \E t \in TaskIds : Closed(t)

\* The bot as main() starts it.
Init ==
    /\ user_tokens = EmptyDict
    /\ monitoring_tasks = EmptyDict
    /\ conversation = [u \in Owners |-> END]
    /\ tasks = <<>>
    /\ reply = Reply("")
    /\ call = NoCall

Next ==
    \/ StoreNext
    \/ \E u \in Owners, data \in MonitorData : handle_button_click(u, data)
    \/ TaskNext

Spec == Init /\ [][Next]_vars

\* The token store: the bot with the monitoring buttons left alone.
SpecStore == Init /\ [][StoreNext]_vars

\* Monitoring: the users have sent their tokens (lists the store reaches) and
\* the watchers among them go on to start and stop monitoring.
Watchers == {"u1"}

MonitorLists == {<<>>, <<TokL>>, <<TokS, TokL>>, <<TokL, TokL>>}

InitMonitor ==
    /\ user_tokens \in {ut \in [Owners -> MonitorLists] :
                           \A u \in Owners \ Watchers : ut[u] = <<>>}
    /\ monitoring_tasks = EmptyDict
    /\ conversation = [u \in Owners |-> END]
    /\ tasks = <<>>
    /\ reply = Reply("")
    /\ call = NoCall

MonitorNext ==
    \/ \E u \in Watchers, data \in MonitorData : handle_button_click(u, data)
    \/ TaskNext

SpecMonitor == InitMonitor /\ [][MonitorNext]_vars

\* The steps of one task.
TaskStep(t) ==
    \/ TaskStart(t)
    \/ \E o \in PingOutcomes \cup {CancelledError} : PingAttempt(t, o)
    \/ PingDelay(t)
    \/ \E o \in PositionOutcomes \cup {CancelledError} : PosAttempt(t, o)
    \/ PosDelay(t)
    \/ SendDone(t)
    \/ SleepDone(t)
    \/ CrashSendDone(t)
    \/ Closed(t)

\* The event loop runs every task that is ready: a task whose await can end is
\* not left waiting for ever.
Fairness == \A t \in 1..MaxTasks : WF_vars(t \in TaskIds /\ TaskStep(t))

\* Monitoring of at most one token, under that fairness.
InitMonitorOne ==
    /\ InitMonitor
    /\ \A u \in Owners : Len(user_tokens[u]) <= 1

SpecMonitorFair == InitMonitorOne /\ [][MonitorNext]_vars /\ Fairness

\* Editing while monitoring: the watchers add and remove tokens while their
\* tasks run; nobody stops.
EditData ==
    {Data("start_monitoring"), Data("add_tokens")}
        \cup {IndexData(REMOVE_PREFIX, i) : i \in 0..1}
EditTexts == {<<TokL>>, <<TokS, TokL>>}

\* The service answers every call of a cycle at the first attempt.
EditPing == {OkResponse({<<"status", PyStr("up")>>})}
EditPosition == {OkResponse({<<"behind", PyInt(5)>>})}

EditNext ==
    \/ \E u \in Watchers, data \in EditData : handle_button_click(u, data)
    \/ \E u \in Watchers, lines \in EditTexts : process_tokens(u, lines)
    \/ \E t \in TaskIds : TaskStart(t)
    \/ \E t \in TaskIds, o \in EditPing : PingAttempt(t, o)
    \/ \E t \in TaskIds, o \in EditPosition : PosAttempt(t, o)
    \/ \E t \in TaskIds : SendDone(t)
    \/ \E t \in TaskIds : SleepDone(t)

SpecEdit == InitMonitor /\ [][EditNext]_vars

\* Two owners, each starting, stopping, adding and removing, while the tasks
\* of both run: at most OwnerTokens tokens stored, as many tasks as owners, and
\* a monitoring interval that only a cancellation cuts short.
OwnerLists == {<<>>, <<TokL>>}
OwnerTokens == 2
OwnerData ==
    {Data("start_monitoring"), Data("stop_monitoring"), Data("add_tokens")}
        \cup {IndexData(REMOVE_PREFIX, i) : i \in 0..1}
OwnerTexts == {<<TokL>>}

InitOwners ==
    /\ user_tokens \in {EmptyDict} \cup [Owners -> OwnerLists]
    /\ monitoring_tasks = EmptyDict
    /\ conversation = [u \in Owners |-> END]
    /\ tasks = <<>>
    /\ reply = Reply("")
    /\ call = NoCall

OwnersNext ==
    \/ \E u \in Owners, data \in OwnerData :
          /\ data.cmd = "start_monitoring" => Len(tasks) < Cardinality(Owners)
          /\ handle_button_click(u, data)
    \/ \E u \in Owners, lines \in OwnerTexts :
          /\ TotalTokens(user_tokens, DOMAIN user_tokens) < OwnerTokens
          /\ process_tokens(u, lines)
    \/ \E t \in TaskIds : TaskStart(t)
    \/ \E t \in TaskIds, o \in EditPing \cup {CancelledError} : PingAttempt(t, o)
    \/ \E t \in TaskIds, o \in EditPosition \cup {CancelledError} : PosAttempt(t, o)
    \/ \E t \in TaskIds : SendDone(t)
    \/ \E t \in TaskIds : tasks[t].must_cancel /\ SleepDone(t)
    \/ \E t \in TaskIds : Closed(t)

SpecOwners == InitOwners /\ [][OwnersNext]_vars

\* One call of ping_server or get_position.
InitCall ==
    /\ user_tokens = EmptyDict
    /\ monitoring_tasks = EmptyDict
    /\ conversation = [u \in Owners |-> END]
    /\ tasks = <<>>
    /\ reply = Reply("")
    /\ call \in {NewCall("ping_server"), NewCall("get_position")}

CallNext ==
    \/ \E o \in PingOutcomes \cup PositionOutcomes : CallAttempt(o)
    \/ CallDelay

SpecCall == InitCall /\ [][CallNext]_vars

(***************************************************************************)
(* Properties                                                              *)
(***************************************************************************)
StartClick(u) == handle_button_click(u, Data("start_monitoring"))
StopClick(u) == handle_button_click(u, Data("stop_monitoring"))
RemoveClick(u, i) == handle_button_click(u, IndexData(REMOVE_PREFIX, i))

\* The tasks spawned for owner u that have not terminated.
Unterminated(ts, u) ==
    {t \in DOMAIN ts : ts[t].owner = u /\ ts[t].pc \notin {"Cancelled", "Failed"}}

\* Owner u has a Running session: a registered task that has not terminated.
Running(u) ==
    /\ u \in DOMAIN monitoring_tasks
    /\ tasks[monitoring_tasks[u]].pc \notin {"Cancelled", "Failed"}

\* The step spawns a task for u and registers it.
Spawns(u) ==
    /\ Len(tasks') = Len(tasks) + 1
    /\ tasks'[Len(tasks')].owner = u
    /\ tasks'[Len(tasks')].pc = "created"
    /\ u \in DOMAIN monitoring_tasks'
    /\ monitoring_tasks'[u] = Len(tasks')
    /\ reply'.text = "Started monitoring"

\* C1: a start_monitoring call for an owner whose registered task has not
\* terminated answers "already running", spawns nothing and leaves
\* monitoring_tasks as it was; a call for an owner without such a task spawns
\* one; so an owner never has two unterminated tasks that no stop_monitoring
\* has cancelled.
C1_StartIsIdempotent ==
    [][\A u \in Owners :
         /\ (StartClick(u) /\ Running(u)) =>
               /\ reply'.text = "Monitoring already running"
               /\ tasks' = tasks
               /\ monitoring_tasks' = monitoring_tasks
         /\ (StartClick(u) /\ ~Running(u)) => Spawns(u)
         /\ Cardinality({t \in Unterminated(tasks', u) : ~tasks'[t].stopped}) <= 1
      ]_vars

C1_Witness ==
    \E u \in Owners :
        /\ Running(u)
        /\ reply.text = "Monitoring already running"
        /\ Cardinality(Unterminated(tasks, u)) = 1

\* C2: in every reachable state, an owner without an entry in
\* monitoring_tasks has no task that is still unterminated.
C2_IdleOwnerHasNoLiveWorker ==
    \A u \in Owners :
        u \notin DOMAIN monitoring_tasks => Unterminated(tasks, u) = {}

\* C3: stop_monitoring for an owner without a Running session (never started,
\* stopped, or the task ended after a fault) answers "not running" and leaves
\* monitoring_tasks and user_tokens as they were.
C3_StopWhenNotRunning ==
    [][\A u \in Owners :
         (StopClick(u) /\ ~Running(u)) =>
            /\ reply'.text = "No active monitoring"
            /\ monitoring_tasks' = monitoring_tasks
            /\ user_tokens' = user_tokens
      ]_vars

\* C4: in every reachable state each owner has at most one task that has not
\* terminated.
C4_OneLiveWorkerPerOwner ==
    \A u \in Owners : Cardinality(Unterminated(tasks, u)) <= 1

\* C5: once stop_monitoring has cancelled a task, whatever the task does next,
\* at whichever await it was suspended, is to end by cancellation: it never
\* goes on to send a status update or the crash message, and never ends Failed.
C5_CancelledIsNotFailed ==
    [][\A t \in DOMAIN tasks :
         (tasks[t].stopped /\ tasks'[t] # tasks[t]) =>
            /\ tasks'[t].pc \in {"closing", "Cancelled"}
            /\ tasks'[t].n_crash = tasks[t].n_crash
      ]_vars

C5_Witness ==
    \E t \in DOMAIN tasks : tasks[t].stopped /\ tasks[t].pc = "Cancelled"

\* The attempts a call has made so far, in order.
IsAttempt(e) == e.kind # "sleep"
Attempts == SelectSeq(call.trace, IsAttempt)

\* C6: a call of ping_server or get_position makes at most MAX_RETRIES
\* attempts; it goes on only while every attempt so far has failed and fewer
\* than MAX_RETRIES were made; it returns None only after exactly MAX_RETRIES
\* failed attempts, and otherwise returns the payload of its first successful
\* attempt, which is its last attempt.
C6_BoundedRetries ==
    LET n == Len(Attempts)
        succeeded == {i \in 1..n : Attempts[i].kind = "ok"} IN
    /\ n <= MAX_RETRIES
    /\ call.pc \in {"attempt", "delay"} => succeeded = {} /\ n < MAX_RETRIES
    /\ call.pc = "returned" =>
          IF succeeded = {}
          THEN n = MAX_RETRIES /\ call.result = ReturnNone
          ELSE succeeded = {n} /\ call.result = ReturnJson(Attempts[n].json)

C6_Witness ==
    /\ call.pc = "returned"
    /\ call.result = ReturnNone
    /\ Len(Attempts) = MAX_RETRIES
    /\ \E i \in 1..Len(Attempts) : Attempts[i].kind = "non200"

\* The step in which task t has the status of its token in hand (line 249).
Observes(t) ==
    tasks[t].pc = "pos" /\ tasks'[t].pc \in {"ping", "send", "sleep", "crash_send"}

\* C7: when a task observes the status of a token, it adds an entry for the
\* token to the cycle's updates exactly when the status differs from the one
\* it observed for that token before, a first observation always differing.
C7_EntryExactlyOnChange ==
    [][\A t \in DOMAIN tasks :
         Observes(t) =>
            LET token == tasks[t].token
                differs == \/ token \notin DOMAIN tasks[t].obs
                           \/ tasks[t].obs[token] # tasks'[t].obs[token]
                emitted == Len(tasks'[t].updates) = Len(tasks[t].updates) + 1
            IN differs <=> emitted
      ]_vars

\* C8: a task that hits a fault sends the crash message once, then only
\* finishes, and stays finished; tasks are created by start_monitoring alone,
\* and a start_monitoring call for an owner whose registered task ended after
\* a fault spawns a new task.
C8_FaultIsFinalUntilRestart ==
    [][/\ \A t \in DOMAIN tasks :
            /\ tasks'[t].n_crash <= 1
            /\ tasks'[t].n_crash # tasks[t].n_crash =>
                  tasks[t].pc = "pos" /\ tasks'[t].pc = "crash_send"
            /\ (tasks'[t].pc = "crash_send" /\ tasks[t].pc # "crash_send") =>
                  tasks'[t].n_crash = tasks[t].n_crash + 1
            /\ tasks[t].pc = "crash_send" =>
                  tasks'[t].pc \in {"crash_send", "Failed", "closing"}
            /\ tasks[t].pc = "Failed" => tasks'[t] = tasks[t]
       /\ Len(tasks') # Len(tasks) => \E u \in Owners : StartClick(u) /\ Spawns(u)
       /\ \A u \in Owners :
            (/\ StartClick(u)
             /\ u \in DOMAIN monitoring_tasks
             /\ tasks[monitoring_tasks[u]].pc = "Failed") => Spawns(u)
      ]_vars

C8_Witness ==
    \E t1, t2 \in DOMAIN tasks :
        /\ t1 < t2
        /\ tasks[t1].pc = "Failed"
        /\ tasks[t1].n_crash = 1
        /\ tasks[t2].owner = tasks[t1].owner
        /\ tasks[t1].owner \in DOMAIN monitoring_tasks
        /\ monitoring_tasks[tasks[t1].owner] = t2

\* C9: a removal click with index i, 0 <= i < len, leaves the owner's list
\* without its element number i, the others in their order, and reports that
\* element; a click with any other index, negative ones included, leaves the
\* list as it was and reports an invalid selection.
C9_RemoveByIndex ==
    [][\A u \in Owners, i \in ButtonIndices :
         RemoveClick(u, i) =>
            LET old == TokensOf(user_tokens, u)
                new == TokensOf(user_tokens', u) IN
            IF 0 <= i /\ i < Len(old)
            THEN /\ Len(new) = Len(old) - 1
                 /\ \A j \in 1..Len(new) :
                        new[j] = IF j <= i THEN old[j] ELSE old[j + 1]
                 /\ reply'.text = "Removed token"
                 /\ reply'.token = <<".", ".", ".">> \o Suffix(old[i + 1])
            ELSE /\ new = old
                 /\ reply'.text = "Invalid token selection"
      ]_vars

C9_Witness ==
    /\ reply.text = "Removed token"
    /\ reply.token = <<".", ".", ".">> \o TokS
    /\ \E u \in Owners : TokensOf(user_tokens, u) = <<TokL, TokS>>

\* C10: an attempt of a remote call that ends in a transport error, a timeout,
\* a non-200 status or an undecodable body only leads to the next attempt, the
\* retry delay or the return of None; and a task that has None from the ping
\* call, or gets None from the position call, for a token does not go on to
\* the crash message.
C10_UnavailableNeverFaults ==
    [][\A t \in DOMAIN tasks :
         /\ \A o \in Failures :
               PingAttempt(t, o) => tasks'[t].pc \in {"ping", "ping_delay", "pos"}
         /\ \A o \in Failures :
               PosAttempt(t, o) =>
                  /\ tasks'[t].pc # "crash_send"
                  /\ tasks'[t].n_crash = tasks[t].n_crash
         /\ (Observes(t) /\ tasks[t].current_ping.none) =>
               tasks'[t].pc # "crash_send"
      ]_vars

\* C11: stop_monitoring for an owner whose task is in the inter-cycle sleep is
\* through while the task is still in that sleep, and leaves no task
\* registered for the owner; the task then begins no further cycle, and, the
\* event loop being fair, ends by cancellation.
C11_StopDuringSleep ==
    /\ [][\A u \in Owners :
            (StopClick(u) /\ Running(u) /\ tasks[monitoring_tasks[u]].pc = "sleep") =>
               /\ u \notin DOMAIN monitoring_tasks'
               /\ reply'.text = "Stopped monitoring"
               /\ tasks'[monitoring_tasks[u]].pc = "sleep"
               /\ tasks'[monitoring_tasks[u]].stopped
         ]_vars
    /\ [][\A t \in DOMAIN tasks :
            (tasks[t].stopped /\ tasks[t].pc = "sleep") =>
               /\ tasks'[t].pc \in {"sleep", "Cancelled"}
               /\ tasks'[t].cycles <= tasks[t].cycles
         ]_vars
    /\ \A t \in 1..MaxTasks :
          (t \in TaskIds /\ tasks[t].stopped /\ tasks[t].pc = "sleep")
             ~> (t \in TaskIds /\ tasks[t].pc = "Cancelled")

C11_Witness ==
    \E t \in DOMAIN tasks :
        /\ tasks[t].stopped
        /\ tasks[t].pc = "sleep"
        /\ tasks[t].owner \notin DOMAIN monitoring_tasks

\* C12: with one token monitored, the observation of status "down", position
\* 5 after that of status "up", position 5 puts exactly one entry in the
\* cycle's update, and the entry has no position part.
C12_ReportsChangedFieldOnly ==
    [][\A t \in DOMAIN tasks :
         LET token == tasks[t].token
             up5 == [ping |-> PyStr("up"), position |-> PyInt(5)]
             down5 == [ping |-> PyStr("down"), position |-> PyInt(5)] IN
         (/\ Observes(t)
          /\ Len(TokensOf(user_tokens, tasks[t].owner)) = 1
          /\ token \in DOMAIN tasks[t].obs
          /\ tasks[t].obs[token] = up5
          /\ tasks'[t].obs[token] = down5) =>
            /\ Len(tasks'[t].updates) = 1
            /\ "position" \notin DOMAIN tasks'[t].updates[1]
      ]_vars

\* A line with a character that is not a blank, and the line without blanks.
NonBlank(line) == \E i \in 1..Len(line) : line[i] # " "
IsNotBlank(c) == c # " "
Unpadded(line) == SelectSeq(line, IsNotBlank)

\* C14: a submitted message leaves the owner's list as it was, followed by the
\* tokens of the message's non-blank lines in their order, repeated tokens
\* and tokens already stored included, and reports their number and the new
\* total, the old length plus that number; a message without a non-blank line
\* leaves the list as it was.
C14_AddAppends ==
    [][\A u \in Owners, lines \in Texts :
         process_tokens(u, lines) =>
            LET old == TokensOf(user_tokens, u)
                new == TokensOf(user_tokens', u)
                sub == SelectSeq(lines, NonBlank) IN
            /\ Len(new) = Len(old) + Len(sub)
            /\ \A j \in 1..Len(old) : new[j] = old[j]
            /\ \A j \in 1..Len(sub) : new[Len(old) + j] = Unpadded(sub[j])
            /\ IF sub = <<>>
               THEN reply'.text = "No valid tokens found"
               ELSE /\ reply'.text = "Added tokens"
                    /\ reply'.count = Len(sub)
                    /\ reply'.total = Len(old) + Len(sub)
      ]_vars

C14_Witness ==
    /\ reply.text = "Added tokens"
    /\ reply.count = 2
    /\ reply.total = 3
    /\ \E u \in Owners : TokensOf(user_tokens, u) = <<TokL, TokL, TokL>>

\* C17: in one call, every attempt that is followed by another attempt is
\* followed by the retry delay first, whether it failed by an exception or by
\* a non-200 status; a delay follows only a failed attempt that is not the
\* last one allowed, so the call never returns out of a delay.
C17_DelayBetweenAttempts ==
    /\ \A i \in 1..(Len(call.trace) - 1) :
          IsAttempt(call.trace[i]) => call.trace[i + 1].kind = "sleep"
    /\ \A i \in 1..Len(call.trace) :
          call.trace[i].kind = "sleep" =>
             /\ i > 1
             /\ call.trace[i - 1].kind \notin {"ok", "sleep"}
             /\ Len(SelectSeq(SubSeq(call.trace, 1, i), IsAttempt)) < MAX_RETRIES
    /\ call.pc = "returned" => call.trace[Len(call.trace)].kind # "sleep"

\* The entries an update holds for a token.
EntriesFor(updates, token) ==
    {i \in 1..Len(updates) : updates[i].token = ShortToken(token)}

C16_UnavailableIsDistinct ==
    [][\A t \in DOMAIN tasks :
         (/\ Observes(t)
          /\ Len(TokensOf(user_tokens, tasks[t].owner)) = 1
          /\ tasks[t].last_seen.token = tasks[t].token
          /\ \/ tasks'[t].last_seen.ping # tasks[t].last_seen.ping
             \/ tasks'[t].last_seen.position # tasks[t].last_seen.position) =>
            \/ tasks'[t].updates # tasks[t].updates
            \/ tasks'[t].pc = "crash_send"
      ]_vars

\* A step in which the for statement of task t takes a token from its iterator.
Polls(t) ==
    /\ tasks[t].pc \in {"created", "sleep", "pos"}
    /\ tasks'[t].pc = "ping"

\* A step in which the for statement of task t finds its iterator exhausted.
EndsCycle(t) ==
    /\ tasks[t].pc \in {"created", "sleep", "pos"}
    /\ tasks'[t].pc \in {"send", "sleep"}

Range(seq) == {seq[i] : i \in 1..Len(seq)}

\* C15: a cycle polls the list as it was when the cycle began: every token it
\* takes is the next one of that list, and the cycle ends only when it has
\* taken them all, whatever the handlers remove meanwhile.
C15_CycleReadsSnapshot ==
    [][\A t \in DOMAIN tasks :
         /\ Polls(t) =>
               /\ Len(tasks'[t].polled) <= Len(tasks'[t].snapshot)
               /\ tasks'[t].polled = SubSeq(tasks'[t].snapshot, 1, Len(tasks'[t].polled))
         /\ (EndsCycle(t) /\ tasks[t].pc = "pos") =>
               \A tok \in Range(tasks[t].snapshot) \cap
                            Range(TokensOf(user_tokens, tasks[t].owner)) :
                   tok \in Range(tasks[t].polled)
      ]_vars

\* C19: every cycle reads the owner's list anew: a token added after the
\* first cycle began, in the list when a later cycle begins and still in it
\* when that cycle ends, has been polled in that cycle and has a snapshot; no
\* cycle polls a token that is not in the list.
C19_CycleRereadsList ==
    [][\A t \in DOMAIN tasks :
         /\ Polls(t) =>
               tasks'[t].token \in Range(TokensOf(user_tokens, tasks[t].owner))
         /\ (EndsCycle(t) /\ tasks[t].pc = "pos") =>
               \A tok \in Range(tasks[t].snapshot) \ Range(tasks[t].first_list) :
                   tok \in Range(TokensOf(user_tokens, tasks[t].owner)) =>
                       /\ tok \in Range(tasks[t].polled)
                       /\ tok \in DOMAIN tasks'[t].prev_status
      ]_vars

\* A step of a handler that owner u calls: a button click of start, stop, add
\* or remove, or the message with the tokens to add.
HandlerOf(u) ==
    \/ \E data \in OwnerData : handle_button_click(u, data)
    \/ \E lines \in OwnerTexts : process_tokens(u, lines)

\* The step leaves everything of owner u as it was: the token list, the entry
\* of monitoring_tasks, and the tasks of u, none of which is new.
Untouched(u) ==
    /\ (u \in DOMAIN user_tokens') = (u \in DOMAIN user_tokens)
    /\ TokensOf(user_tokens', u) = TokensOf(user_tokens, u)
    /\ (u \in DOMAIN monitoring_tasks') = (u \in DOMAIN monitoring_tasks)
    /\ u \in DOMAIN monitoring_tasks => monitoring_tasks'[u] = monitoring_tasks[u]
    /\ \A t \in DOMAIN tasks' :
          tasks'[t].owner = u => t \in DOMAIN tasks /\ tasks'[t] = tasks[t]

\* C13: a start, stop, add or remove of one owner changes neither the token
\* list, nor the monitoring_tasks entry, nor any task of another owner.
C13_OwnersAreIsolated ==
    [][\A a \in Owners, b \in Owners : (a # b /\ HandlerOf(a)) => Untouched(b)]_vars

\* One owner has stopped and is not registered any more while the other
\* owner, with a token stored, is registered and its task is in a cycle.
C13_Witness ==
    \E a \in Owners, b \in Owners, ta \in DOMAIN tasks, tb \in DOMAIN tasks :
        /\ a # b
        /\ tasks[ta].owner = a /\ tasks[ta].stopped /\ a \notin DOMAIN monitoring_tasks
        /\ tasks[tb].owner = b /\ b \in DOMAIN monitoring_tasks
        /\ monitoring_tasks[b] = tb /\ tasks[tb].pc = "pos"
        /\ TokensOf(user_tokens, b) # <<>>

\* The ping call of the token in hand returned a 200 payload with no "status".
NoStatusField(tk) ==
    /\ ~tk.current_ping.none
    /\ \A p \in tk.current_ping.json : p[1] # "status"

\* C20 as stated: whenever the ping payload of the token observed has no
\* "status" field and the tuple differs from the snapshot, the task takes the
\* fatal path.
C20_NoStatusFieldIsFatal ==
    [][\A t \in DOMAIN tasks :
         (/\ Observes(t)
          /\ NoStatusField(tasks[t])
          /\ StatusChanged(tasks[t].prev_status, tasks[t].token,
                           tasks'[t].obs[tasks[t].token])) =>
             /\ tasks'[t].pc = "crash_send"
             /\ tasks'[t].n_crash = tasks[t].n_crash + 1
      ]_vars

\* C20, amended: a 200 ping payload that is a non-empty object with no
\* "status" field always takes the task to the fatal path: formatting raises,
\* no snapshot is stored, the crash message is the one thing still sent, and
\* the task ends Failed, or Cancelled if it is cancelled while sending, without
\* polling any other token of the owner; the empty payload is read as "down"
\* and does not raise.
C20_NonEmptyNoStatusIsFatal ==
    [][\A t \in DOMAIN tasks :
         /\ (Observes(t) /\ NoStatusField(tasks[t])) =>
               IF tasks[t].current_ping.json = {}
               THEN /\ tasks'[t].obs[tasks[t].token].ping = PyStr("down")
                    /\ tasks'[t].pc # "crash_send"
                    /\ tasks'[t].n_crash = tasks[t].n_crash
               ELSE /\ tasks'[t].obs[tasks[t].token].ping = PyNone
                    /\ tasks'[t].pc = "crash_send"
                    /\ tasks'[t].n_crash = tasks[t].n_crash + 1
                    /\ tasks'[t].prev_status = tasks[t].prev_status
         /\ (t \in DOMAIN tasks' /\ tasks[t].pc = "crash_send") =>
               /\ tasks'[t].pc \in {"crash_send", "Failed", "closing"}
               /\ tasks'[t].pc = "closing" => tasks[t].must_cancel
               /\ tasks'[t].n_crash = tasks[t].n_crash
         /\ (t \in DOMAIN tasks' /\ tasks[t].pc = "Failed") => tasks'[t].pc = "Failed"
      ]_vars

\* A task is sending the crash message after the first of two tokens, whose
\* ping call had returned a payload, made formatting raise.
C20_Witness ==
    \E t \in DOMAIN tasks :
        /\ tasks[t].pc = "crash_send"
        /\ tasks[t].n_crash = 1
        /\ tasks[t].last_seen.ping
        /\ Len(TokensOf(user_tokens, tasks[t].owner)) = 2
        /\ DOMAIN tasks[t].obs = {TokensOf(user_tokens, tasks[t].owner)[1]}
        /\ TokensOf(user_tokens, tasks[t].owner)[2] \notin DOMAIN tasks[t].obs
====
